---- MODULE Spec2Model ----
(***************************************************************************)
(* Solar-thermal simulation engine (src/src/hooks/useSimulation.ts, the    *)
(* later of the two versions in the file, lines 206-429) with the formulas *)
(* of src/src/utils/formulas.ts (Fahrenheit version, lines 115-268).       *)
(*                                                                         *)
(* Numbers are IEEE doubles in the program; here they are fixed-point      *)
(* integers, every intermediate below 2^31:                                *)
(*   temperatures        1e-4 degF          (70 degF  = 700000)            *)
(*   heat rates Q        1e-2 W             (1600 W   = 160000)            *)
(*   flow rates          1e-3 L/min         (1 L/min  = 1000)              *)
(*   panel area          1e-1 m^2           (2 m^2    = 20)                *)
(*   efficiency          1e-2               (0.8      = 80)                *)
(*   heat-transfer coeff 1e-3 W/(m^2 K)     (5        = 5000)              *)
(* irradiance (W/m^2), tank volume (L) and elevation (m) are integers.     *)
(***************************************************************************)
EXTENDS Integers, Sequences, FiniteSets, TLC

\* ------------------------------------------------------------------ bounds
\* ticks explored in one run of the default parameters (the history cap is
\* 50, the claim needs 60)
MaxTicks == 61
\* ticks explored in every other run, and in any run once a handler lagged
MaxShortTicks == 4
\* ambient and tank temperatures tried when a formula is called on its own
MaxTempSteps == 3
\* panel heights tried above the smallest, in steps of 0.3 m
MaxHeightSteps == 3
\* irradiances tried, in steps of 250 W/m^2
MaxIrradianceSteps == 5
\* elevation differences tried, in m either way
MaxElevation == 3
\* handler invocations explored while stateRef still lags behind state
MaxLag == 1
\* lagging handlers are explored in runs of at most this many ticks
MaxLagTime == 2
\* interval timers that may be alive at once before setInterval is cut off
MaxTimers == 2
\* button clicks explored in a session with the form
MaxClicks == 3
\* timer firings explored per run in a session with the form
MaxUiTicks == 1

\* ------------------------------------------------------- program constants
MAX_DATA_POINTS == 50
\* -0.00222 per degF, in 1e-5
TEMP_COEFFICIENT == -222
PANEL_MASS_PER_M2 == 10
PANEL_SPECIFIC_HEAT == 900
\* 77 degF
refTempF == 770000
\* floor of computeHeatTransferCoeff, 5 W/(m^2 K)
H_FLOOR == 5000
\* pump threshold 0.01 L/min
PUMP_THRESHOLD == 10
\* default panel height 1.5 m, in 1e-1 m
DEFAULT_PANEL_HEIGHT == 15

Null == [null |-> TRUE]

\* ------------------------------------------------------ fixed-point helpers
Abs(x) == IF x < 0 THEN -x ELSE x
Max2(a, b) == IF a >= b THEN a ELSE b
Min2(a, b) == IF a <= b THEN a ELSE b

\* a * b / d without overflow; d > 0 and d * |b| < 2^31
MulDiv(a, b, d) == (a \div d) * b + ((a % d) * b) \div d

RECURSIVE SqrtIter(_, _, _)
SqrtIter(n, lo, hi) ==
    IF lo >= hi THEN lo
    ELSE LET mid == (lo + hi + 1) \div 2
         IN  IF mid * mid <= n THEN SqrtIter(n, mid, hi)
                               ELSE SqrtIter(n, lo, mid - 1)

\* Math.sqrt on integers: the largest r with r * r <= n
ISqrt(n) == SqrtIter(n, 0, Min2(n, 46340))

\* Math.pow(v, 0.5) for v in 1e-4
SqrtFP(v) == ISqrt(v * 10000)

RECURSIVE PowFP(_, _)
\* Math.pow(v, n) for v >= 0 in 1e-4 and a natural n, saturating at 2e9
PowFP(v, n) ==
    IF n = 0 THEN 10000
    ELSE LET p == PowFP(v, n - 1)
         IN  IF p \div 10000 >= 2000000000 \div Max2(v, 1) - 1
             THEN 2000000000
             ELSE MulDiv(p, v, 10000)

RECURSIVE RootIter(_, _, _, _)
RootIter(v, n, lo, hi) ==
    IF lo >= hi THEN lo
    ELSE LET mid == (lo + hi + 1) \div 2
         IN  IF PowFP(mid, n) <= v THEN RootIter(v, n, mid, hi)
                                   ELSE RootIter(v, n, lo, mid - 1)

\* Math.pow(v, 1/n) for v >= 1 in 1e-4
RootFP(v, n) == RootIter(v, n, 10000, Max2(10000, v))

\* ------------------------------------------------------------ fluid catalog
FLUIDS ==
    [ water            |-> [specificHeat |-> 4186, density |-> 998],
      ethylene_glycol  |-> [specificHeat |-> 2382, density |-> 1113],
      mineral_oil      |-> [specificHeat |-> 1880, density |-> 850],
      silicone         |-> [specificHeat |-> 1465, density |-> 920],
      propylene_glycol |-> [specificHeat |-> 2480, density |-> 1036] ]

\* what FLUIDS[fluid] evaluates to when fluid is not a key of the catalog
Undefined == [undefined |-> TRUE]

\* mutant: an unknown fluid id falls back to the record of water
fluidPropsOrWater(fluid) ==
    IF fluid \in DOMAIN FLUIDS THEN FLUIDS[fluid] ELSE FLUIDS["water"]

\* FLUIDS[fluid]: the record of a catalog key, undefined for any other id
fluidPropsOf(fluid) ==
    IF fluid \in DOMAIN FLUIDS THEN FLUIDS[fluid] ELSE Undefined

\* ------------------------------------------------------------------ formulas
\* kg per panel; area in 1e-1 m^2, result in 1e-1 kg
getPanelThermalMass(area) == PANEL_MASS_PER_M2 * area

\* Math.exp(-x) for a small x >= 0 in 1e-6, by its series to the third term
ExpNeg(x) == 1000000 - x + MulDiv(x, x \div 1000, 2000)

\* Pa; 9.81 * elevationM / (287.05 * 288.15) = elevationM * 118.6e-6
getAirPressure(elevationDiff) ==
    LET elevationM == Max2(0, elevationDiff)
    IN  MulDiv(101325, ExpNeg((elevationM * 1186) \div 10) \div 100, 10000)

\* kg/m^3 in 1e-4; tempF in 1e-4 degF
getAirDensity(tempF, elevationDiff) ==
    LET pressure == getAirPressure(elevationDiff)
        tempR    == tempF + 4596700
        tempK    == (tempR * 5) \div 900
        RT       == (28705 * tempK) \div 10000
    IN  MulDiv(pressure, 10000, RT)

\* kg/(m s) in 1e-9
getAirViscosity(tempF) ==
    LET tempR == tempF + 4596700
        ratio == (tempR * 100) \div 49167
        pow15 == (ratio * SqrtFP(ratio)) \div 10000
        suth  == (60207 * 10000) \div ((tempR + 1104000) \div 100)
    IN  (((17160 * suth) \div 10000) * pow15) \div 10000

\* W/(m degF) in 1e-7
getAirThermalConductivity(tempF, irradiance) ==
    LET baseConductivity == 242000 + (242 * irradiance) \div 10
        slope            == 77000 + (385 * irradiance) \div 100
    IN  baseConductivity + MulDiv(tempF, slope \div 100, 10000)

\* in 1e-6; flowRate in 1e-3 L/min
getPrandtlNumber(tempF, flowRate) ==
    LET basePrandtl == 713000 - tempF \div 100
        flowEffect  == Min2(flowRate \div 10, 1000) \div 10
    IN  basePrandtl + MulDiv(basePrandtl, flowEffect, 1000)

\* mutant: the temperature derating is computed from the irradiance
computeHeatInputSwapped(irradiance, baseEfficiency, area, panelTempF) ==
    LET tempDiff   == irradiance * 10000 - refTempF
        factor     == 1000000 + MulDiv(tempDiff, TEMP_COEFFICIENT, 1000)
        efficiency == baseEfficiency * factor
        clampedEfficiency == Max2(0, efficiency)
    IN  MulDiv(MulDiv(clampedEfficiency, irradiance, 100000), area, 100)

\* mutant: the efficiency is clamped with Math.min where Math.max belongs
computeHeatInputMinClamp(irradiance, baseEfficiency, area, panelTempF) ==
    LET tempDiff   == panelTempF - refTempF
        factor     == 1000000 + MulDiv(tempDiff, TEMP_COEFFICIENT, 1000)
        efficiency == baseEfficiency * factor
        clampedEfficiency == Min2(0, efficiency)
    IN  MulDiv(MulDiv(clampedEfficiency, irradiance, 100000), area, 100)

\* W in 1e-2
computeHeatInput(irradiance, baseEfficiency, area, panelTempF) ==
    LET tempDiff   == panelTempF - refTempF
        \* 1 + TEMP_COEFFICIENT * tempDiff, in 1e-6
        factor     == 1000000 + MulDiv(tempDiff, TEMP_COEFFICIENT, 1000)
        \* in 1e-8
        efficiency == baseEfficiency * factor
        clampedEfficiency == Max2(0, efficiency)
    IN  MulDiv(MulDiv(clampedEfficiency, irradiance, 100000), area, 100)

\* W in 1e-2; h in 1e-3
computeHeatLoss(area, T_panelF, T_ambientF, h, elevationDiff) ==
    LET elevationFactor == 10000 - elevationDiff
        conv == MulDiv(MulDiv(T_panelF - T_ambientF, h, 1000), area, 1000)
    IN  MulDiv(conv, elevationFactor, 10000)

\* degF in 1e-4; Q_net in 1e-2 W, mass in g, panelArea in 1e-1 m^2
computeTemperatureChange(Q_net, mass, specificHeat, isPanel, panelArea) ==
    IF isPanel
    THEN (Q_net * 1000) \div (getPanelThermalMass(panelArea) * PANEL_SPECIFIC_HEAT)
    ELSE (Q_net * 100) \div MulDiv(mass, specificHeat, 1000)

\* mutant: the floor test is deltaT <= 0.1
computeHeatTransferCoeffInclusive(panelTempF, ambientTempF, panelHeight, irradiance, flowRate, elevationDiff) ==
    LET deltaT == Abs(panelTempF - ambientTempF)
    IN  IF deltaT <= 1000 THEN H_FLOOR
        ELSE
        LET filmTempF   == (panelTempF + ambientTempF) \div 2
            airDensity  == getAirDensity(filmTempF, elevationDiff)
            airViscosity == getAirViscosity(filmTempF)
            airThermalConductivity ==
                getAirThermalConductivity(filmTempF, irradiance)
            prandtl     == getPrandtlNumber(filmTempF, flowRate)
            \* filmTempF + 459.67 in 1e-2; beta is its reciprocal
            filmTempR   == (filmTempF + 4596700) \div 100
            \* g * panelHeight^3 in 1e-2
            gL3         == (981 * panelHeight * panelHeight * panelHeight)
                               \div 1000
            \* g * beta * deltaT * panelHeight^3 in 1e-6
            buoyancy    == MulDiv(deltaT, gL3, filmTempR) * 100
            \* airViscosity / airDensity in 1e-9, and 1e12 / its square
            nu          == (airViscosity * 10000) \div airDensity
            invNu2      == 1000000000 \div ((nu * nu) \div 1000)
            \* Grashof and Rayleigh numbers, in thousands
            Gr          == MulDiv(buoyancy, invNu2, 1000)
            Ra          == MulDiv(Gr, prandtl \div 1000, 1000)
            \* Math.pow(Ra, 0.25) in 1e-3; 1000^0.25 / 10^0.5 = 1.77828
            Ra025       == MulDiv(ISqrt(ISqrt(Ra * 100) * 10000), 177828, 10000)
            \* 0.492 / prandtl in 1e-4, then Math.pow(.., 9 / 16)
            x           == 4920000 \div (prandtl \div 1000)
            x12         == SqrtFP(x)
            x116        == SqrtFP(SqrtFP(SqrtFP(x12)))
            x916        == (x12 * x116) \div 10000
            \* Math.pow(1 + .., 4 / 9) in 1e-4
            denom       == RootFP(PowFP(10000 + x916, 4), 9)
            \* Nusselt number in 1e-3
            Nu          == 680 + MulDiv(Ra025, 6700, denom)
            h           == MulDiv(Nu, airThermalConductivity \div 100,
                                  10000 * panelHeight)
            \* 0.5 * (1 + elevationDiff / 1000) m/s in 1e-4
            windSpeed   == 5000 + 5 * elevationDiff
            forcedConv  == 5700 + (38 * windSpeed) \div 100
        IN  h + forcedConv

\* W/(m^2 K) in 1e-3; temperatures in 1e-4 degF, panelHeight in 1e-1 m,
\* flowRate in 1e-3 L/min
computeHeatTransferCoeff(panelTempF, ambientTempF, panelHeight, irradiance, flowRate, elevationDiff) ==
    LET deltaT == Abs(panelTempF - ambientTempF)
    IN  IF deltaT < 1000 THEN H_FLOOR
        ELSE
        LET filmTempF   == (panelTempF + ambientTempF) \div 2
            airDensity  == getAirDensity(filmTempF, elevationDiff)
            airViscosity == getAirViscosity(filmTempF)
            airThermalConductivity ==
                getAirThermalConductivity(filmTempF, irradiance)
            prandtl     == getPrandtlNumber(filmTempF, flowRate)
            \* filmTempF + 459.67 in 1e-2; beta is its reciprocal
            filmTempR   == (filmTempF + 4596700) \div 100
            \* g * panelHeight^3 in 1e-2
            gL3         == (981 * panelHeight * panelHeight * panelHeight)
                               \div 1000
            \* g * beta * deltaT * panelHeight^3 in 1e-6
            buoyancy    == MulDiv(deltaT, gL3, filmTempR) * 100
            \* airViscosity / airDensity in 1e-9, and 1e12 / its square
            nu          == (airViscosity * 10000) \div airDensity
            invNu2      == 1000000000 \div ((nu * nu) \div 1000)
            \* Grashof and Rayleigh numbers, in thousands
            Gr          == MulDiv(buoyancy, invNu2, 1000)
            Ra          == MulDiv(Gr, prandtl \div 1000, 1000)
            \* Math.pow(Ra, 0.25) in 1e-3; 1000^0.25 / 10^0.5 = 1.77828
            Ra025       == MulDiv(ISqrt(ISqrt(Ra * 100) * 10000), 177828, 10000)
            \* 0.492 / prandtl in 1e-4, then Math.pow(.., 9 / 16)
            x           == 4920000 \div (prandtl \div 1000)
            x12         == SqrtFP(x)
            x116        == SqrtFP(SqrtFP(SqrtFP(x12)))
            x916        == (x12 * x116) \div 10000
            \* Math.pow(1 + .., 4 / 9) in 1e-4
            denom       == RootFP(PowFP(10000 + x916, 4), 9)
            \* Nusselt number in 1e-3
            Nu          == 680 + MulDiv(Ra025, 6700, denom)
            h           == MulDiv(Nu, airThermalConductivity \div 100,
                                  10000 * panelHeight)
            \* 0.5 * (1 + elevationDiff / 1000) m/s in 1e-4
            windSpeed   == 5000 + 5 * elevationDiff
            forcedConv  == 5700 + (38 * windSpeed) \div 100
        IN  h + forcedConv

\* mutant: the two passive candidates are added
passiveFlowAdditive(panelTemp, tankTemp, elevationDiff) ==
    LET gravityFlow == IF elevationDiff > 0 THEN 200 * elevationDiff ELSE 0
        thermoFlow  == IF panelTemp > tankTemp
                       THEN (panelTemp - tankTemp) \div 1000
                       ELSE 0
    IN  Max2(gravityFlow + thermoFlow, 0)

\* The passive branch of the hook's earlier tick, in 1e-3 L/min: the larger
\* of the gravity candidate (0.2 L/min per metre when the tank is above the
\* panel) and the thermosiphon candidate (0.1 L/min per 10 degF of panel
\* excess), floored at zero.  Temperatures in 1e-4 degF, elevation in m.
passiveFlow(panelTemp, tankTemp, elevationDiff) ==
    LET gravityFlow == IF elevationDiff > 0 THEN 200 * elevationDiff ELSE 0
        thermoFlow  == IF panelTemp > tankTemp
                       THEN (panelTemp - tankTemp) \div 1000
                       ELSE 0
    IN  Max2(Max2(gravityFlow, thermoFlow), 0)

\* Imported by the hook from formulas.ts, where its body is absent; it is
\* the passive flow candidate of the flow-mode resolver.
computeThermosiphonFlow(panelTemp, tankTemp, elevationDiff, fluid) ==
    passiveFlow(panelTemp, tankTemp, elevationDiff)

\* ------------------------------------------------------------- parameters
DEFAULT_PARAMS ==
    [ fluid |-> "water", irradiance |-> 1000, efficiency |-> 80,
      ambientTemp |-> 700000, flowRate |-> 1000, tankVolume |-> 200,
      initialTemp |-> 680000, panelArea |-> 20, elevationDiff |-> 10 ]

\* pump off, tank above the panel and hotter than the ambient air
ZeroFlowParams ==
    [ fluid |-> "mineral_oil", irradiance |-> 800, efficiency |-> 50,
      ambientTemp |-> 600000, flowRate |-> 0, tankVolume |-> 100,
      initialTemp |-> 750000, panelArea |-> 15, elevationDiff |-> 5 ]

\* efficiency 1.5 is outside [0, 1]
BadEfficiencyParams ==
    [ fluid |-> "water", irradiance |-> 600, efficiency |-> 150,
      ambientTemp |-> 650000, flowRate |-> 2000, tankVolume |-> 150,
      initialTemp |-> 640000, panelArea |-> 10, elevationDiff |-> 0 ]

\* pump off, tank two metres below the panel and hotter than it
NoReturnPathParams ==
    [ fluid |-> "silicone", irradiance |-> 0, efficiency |-> 70,
      ambientTemp |-> 550000, flowRate |-> 0, tankVolume |-> 120,
      initialTemp |-> 900000, panelArea |-> 12, elevationDiff |-> -2 ]

\* pump at a trickle of 0.005 L/min, tank level with the panel and a
\* tenth of a degree warmer than the ambient air
TrickleParams ==
    [ fluid |-> "ethylene_glycol", irradiance |-> 1200, efficiency |-> 90,
      ambientTemp |-> 600000, flowRate |-> 5, tankVolume |-> 80,
      initialTemp |-> 601000, panelArea |-> 20, elevationDiff |-> 0 ]

\* pump on and the tank 40 degF hotter than the panel at the start
HotTankParams ==
    [ fluid |-> "propylene_glycol", irradiance |-> 400, efficiency |-> 60,
      ambientTemp |-> 500000, flowRate |-> 2000, tankVolume |-> 150,
      initialTemp |-> 900000, panelArea |-> 10, elevationDiff |-> 3 ]

\* "glycol" is a key of the earlier two-fluid catalog and not of this one
UnknownFluidParams ==
    [ fluid |-> "glycol", irradiance |-> 900, efficiency |-> 75,
      ambientTemp |-> 620000, flowRate |-> 1500, tankVolume |-> 100,
      initialTemp |-> 630000, panelArea |-> 18, elevationDiff |-> 1 ]

\* the records start() is called with that name a fluid of the catalog
ParamSet == {DEFAULT_PARAMS, ZeroFlowParams, BadEfficiencyParams,
             NoReturnPathParams, TrickleParams, HotTankParams}

\* every record start() is called with
StartArgs == ParamSet \cup {UnknownFluidParams}

\* the invariants the parameter record is documented to satisfy
ValidParams(p) ==
    /\ p.fluid \in DOMAIN FLUIDS
    /\ p.panelArea > 0
    /\ p.tankVolume > 0
    /\ p.efficiency >= 0 /\ p.efficiency <= 100
    /\ p.flowRate >= 0

\* ------------------------------------------------------------------ state
VARIABLES
    state,          \* the reducer state after every dispatched action
    stateRef,       \* stateRef.current: the state of the last committed render
    paramsRef,      \* paramsRef.current: Null or the bound parameters
    intervalRef,    \* intervalRef.current: 0 (null) or a timer id
    activeTimers,   \* ids of the intervals that have not been cleared
    data,           \* the history buffer
    tickLog,        \* history: every record appended since the last clear
    last,           \* history: the last handler, the state before it, and
                    \*   what it read and resolved
    lag,            \* handlers run so far while stateRef lagged behind state
    call,           \* a formula called on its own: name, arguments, results
    form,           \* the values of the parameter form, field by field
    click           \* history: the last button clicked, what it called, and
                    \*   whether the form was edited since it was last set

vars == <<state, stateRef, paramsRef, intervalRef, activeTimers, data,
          tickLog, last, lag, call, form, click>>

\* mutant: the initial state is taken from the defaults
getInitialStateDefaults(params) ==
    [ time |-> 0, tankTemp |-> DEFAULT_PARAMS.initialTemp,
      panelTemp |-> DEFAULT_PARAMS.ambientTemp, Q |-> 0, qLoss |-> 0,
      running |-> FALSE ]

getInitialState(params) ==
    [ time |-> 0, tankTemp |-> params.initialTemp,
      panelTemp |-> params.ambientTemp, Q |-> 0, qLoss |-> 0,
      running |-> FALSE ]

\* mutant: START spreads the old state where the initial state belongs
simulationReducerResume(s, action) ==
    CASE action.type = "TICK" ->
             [time |-> s.time + 1] @@ action.payload @@ s
      [] action.type = "START" ->
             action.payload @@ [running |-> TRUE] @@ s
      [] action.type = "PAUSE" -> [running |-> FALSE] @@ s
      [] action.type = "RESET" -> getInitialState(action.payload)
      [] OTHER -> s

\* mutant: PAUSE toggles the running flag
simulationReducerToggle(s, action) ==
    CASE action.type = "TICK" ->
             [time |-> s.time + 1] @@ action.payload @@ s
      [] action.type = "START" ->
             action.payload @@ [running |-> TRUE]
                 @@ getInitialState(action.payload)
      [] action.type = "PAUSE" -> [running |-> ~ s.running] @@ s
      [] action.type = "RESET" -> getInitialState(action.payload)
      [] OTHER -> s

\* mutant: TICK spreads the payload last, so time is the payload's time
simulationReducerPayloadTime(s, action) ==
    CASE action.type = "TICK" ->
             action.payload @@ [time |-> s.time + 1] @@ s
      [] action.type = "START" ->
             action.payload @@ [running |-> TRUE]
                 @@ getInitialState(action.payload)
      [] action.type = "PAUSE" -> [running |-> FALSE] @@ s
      [] action.type = "RESET" -> getInitialState(action.payload)
      [] OTHER -> s

\* mutant: TICK stops the run once the simulated time reaches three seconds
simulationReducerAutoStop(s, action) ==
    CASE action.type = "TICK" ->
             [time |-> s.time + 1, running |-> s.time + 1 < 3]
                 @@ action.payload @@ s
      [] action.type = "START" ->
             action.payload @@ [running |-> TRUE]
                 @@ getInitialState(action.payload)
      [] action.type = "PAUSE" -> [running |-> FALSE] @@ s
      [] action.type = "RESET" -> getInitialState(action.payload)
      [] OTHER -> s

\* { ...a, ...b } in JavaScript is b @@ a
simulationReducer(s, action) ==
    CASE action.type = "TICK" ->
             [time |-> s.time + 1] @@ action.payload @@ s
      [] action.type = "START" ->
             action.payload @@ [running |-> TRUE]
                 @@ getInitialState(action.payload)
      [] action.type = "PAUSE" -> [running |-> FALSE] @@ s
      [] action.type = "RESET" -> getInitialState(action.payload)
      [] OTHER -> s

\* mutant: a stopped pump falls through to a passive flow driven by the
\* size of the temperature difference, whatever its sign
EffectiveFlowRateAbsPassive(params, prevState) ==
    IF params.flowRate > PUMP_THRESHOLD THEN params.flowRate
    ELSE IF params.flowRate > 0
    THEN Min2(computeThermosiphonFlow(prevState.panelTemp, prevState.tankTemp,
                                      params.elevationDiff, params.fluid),
              params.flowRate)
    ELSE Abs(prevState.panelTemp - prevState.tankTemp) \div 1000

\* mutant: the threshold test is reversed (flowRate < 0.01 is forced mode)
EffectiveFlowRateReversed(params, prevState) ==
    IF params.flowRate < PUMP_THRESHOLD THEN params.flowRate
    ELSE IF params.flowRate > 0
    THEN Min2(computeThermosiphonFlow(prevState.panelTemp, prevState.tankTemp,
                                      params.elevationDiff, params.fluid),
              params.flowRate)
    ELSE 0

\* mutant: the passive flow is not clamped to the pump setting
EffectiveFlowRateNoClamp(params, prevState) ==
    IF params.flowRate > PUMP_THRESHOLD THEN params.flowRate
    ELSE IF params.flowRate > 0
    THEN computeThermosiphonFlow(prevState.panelTemp, prevState.tankTemp,
                                 params.elevationDiff, params.fluid)
    ELSE 0

\* the flow-rate branch of tick, in 1e-3 L/min
EffectiveFlowRate(params, prevState) ==
    IF params.flowRate > PUMP_THRESHOLD THEN params.flowRate
    ELSE IF params.flowRate > 0
    THEN Min2(computeThermosiphonFlow(prevState.panelTemp, prevState.tankTemp,
                                      params.elevationDiff, params.fluid),
              params.flowRate)
    ELSE 0

\* mutant: the exchange is credited whichever node is the hotter one
QTankToPanelSigned(massFlowRate, mc, prevState) ==
    IF massFlowRate > 0
    THEN MulDiv(MulDiv(mc, prevState.tankTemp - prevState.panelTemp, 1000),
                1, 100)
    ELSE 0

\* QTankToPanel of tick, in 1e-2 W; mc is massFlowRate * specificHeat
QTankToPanelOf(massFlowRate, mc, prevState) ==
    IF massFlowRate > 0 /\ prevState.tankTemp > prevState.panelTemp
    THEN MulDiv(MulDiv(mc, prevState.tankTemp - prevState.panelTemp, 1000),
                1, 100)
    ELSE 0

\* every local of one tick() call that reads prevState
TickLocals(params, prevState) ==
    LET fluidProps   == fluidPropsOf(params.fluid)
        \* tankVolumeM3 * density, in g
        fluidMass    == params.tankVolume * fluidProps.density
        Q            == computeHeatInput(params.irradiance, params.efficiency,
                                         params.panelArea, prevState.panelTemp)
        heatTransferCoeff ==
            computeHeatTransferCoeff(prevState.panelTemp, params.ambientTemp,
                                     DEFAULT_PANEL_HEIGHT, 0, 0, 0)
        qLoss        == computeHeatLoss(params.panelArea, prevState.panelTemp,
                                        params.ambientTemp, heatTransferCoeff,
                                        params.elevationDiff)
        effectiveFlowRate == EffectiveFlowRate(params, prevState)
        \* kg/s in 1e-6
        massFlowRate == (effectiveFlowRate * fluidProps.density) \div 60
        \* massFlowRate * specificHeat, W/degF in 1e-3
        mc           == MulDiv(massFlowRate, fluidProps.specificHeat, 1000)
        QTankToPanel == QTankToPanelOf(massFlowRate, mc, prevState)
        qNet         == Q - qLoss + QTankToPanel
        deltaTPanel  == computeTemperatureChange(qNet, 0, 0, TRUE,
                                                 params.panelArea)
        newPanelTemp == prevState.panelTemp + deltaTPanel
        deltaTFluid  ==
            IF massFlowRate > 0
            THEN IF prevState.tankTemp > prevState.panelTemp
                 THEN (((- QTankToPanel) * 1000) \div mc) * 100
                 ELSE ((qNet * 1000) \div mc) * 100
            ELSE 0
        panelOutletTemp == newPanelTemp + deltaTFluid
        qDelivered   == MulDiv(MulDiv(panelOutletTemp - prevState.tankTemp,
                                      mc, 1000), 1, 100)
        deltaTTank   == computeTemperatureChange(qDelivered, fluidMass,
                                                 fluidProps.specificHeat,
                                                 FALSE, 0)
        newTankTemp  == prevState.tankTemp + deltaTTank
    IN  [ effectiveFlowRate |-> effectiveFlowRate,
          massFlowRate |-> massFlowRate, QTankToPanel |-> QTankToPanel,
          qNet |-> qNet, qDelivered |-> qDelivered,
          tickData |-> [ time |-> prevState.time + 1, tankTemp |-> newTankTemp,
                         panelTemp |-> newPanelTemp, Q |-> Q,
                         qLoss |-> qLoss ] ]

\* mutant: slice(0, MAX_DATA_POINTS) keeps the oldest records
AppendCappedKeepOldest(prev, tickData) ==
    LET newData == Append(prev, tickData)
    IN  IF Len(newData) > MAX_DATA_POINTS
        THEN SubSeq(newData, 1, MAX_DATA_POINTS)
        ELSE newData

\* the updater passed to setData in tick
AppendCapped(prev, tickData) ==
    LET newData == Append(prev, tickData)
    IN  IF Len(newData) > MAX_DATA_POINTS
        THEN SubSeq(newData, Len(newData) - MAX_DATA_POINTS + 1, Len(newData))
        ELSE newData

\* clearInterval(intervalRef.current) when the ref is set
ClearInterval(timers) ==
    IF intervalRef # 0 THEN timers \ {intervalRef} ELSE timers

\* the handle setInterval returns: an id no live interval has
FreshTimer(timers) == CHOOSE id \in 1..MaxTimers :
                          /\ id \notin timers
                          /\ \A j \in 1..(id - 1) : j \in timers

\* a handler may find stateRef behind state only within the explored lag
Synced == stateRef = state
LagAllowed == /\ lag < MaxLag
              /\ state.time < MaxLagTime
              /\ stateRef.time < MaxLagTime
CountLag == lag' = IF Synced THEN lag ELSE lag + 1

\* the run length explored from the current state
TickBound ==
    IF paramsRef = DEFAULT_PARAMS /\ lag = 0 THEN MaxTicks ELSE MaxShortTicks

Note(op, arg, read, flow) ==
    [op |-> op, arg |-> arg, prev |-> state, read |-> read, flow |-> flow,
     timers |-> activeTimers]

\* ------------------------------------------------------- the parameter form
\* A field of the form holds the number it was given as a default value, or
\* the text typed into its input (a sequence of characters).
Num(n) == [kind |-> "number", num |-> n, text |-> << >>]
Typed(chars) == [kind |-> "string", num |-> 0, text |-> chars]

Digits == <<"0", "1", "2", "3", "4", "5", "6", "7", "8", "9">>
DigitOf(c) == (CHOOSE i \in 1..10 : Digits[i] = c) - 1

RECURSIVE ParseDigits(_, _)
ParseDigits(chars, acc) ==
    IF chars = << >> THEN acc
    ELSE ParseDigits(Tail(chars), acc * 10 + DigitOf(Head(chars)))

RECURSIVE Pow10(_)
Pow10(k) == IF k = 0 THEN 1 ELSE 10 * Pow10(k - 1)

\* Number(value) in the model's unit of the field (unit = what 1 is written
\* as): a number is itself, "" is 0, a decimal text is read digit by digit
Number(v, unit) ==
    IF v.kind = "number" THEN v.num
    ELSE IF v.text = << >> THEN 0
    ELSE LET neg    == Head(v.text) = "-"
             body   == IF neg THEN Tail(v.text) ELSE v.text
             dots   == {i \in 1..Len(body) : body[i] = "."}
             dot    == IF dots = {} THEN Len(body) + 1
                       ELSE CHOOSE i \in dots : TRUE
             whole  == SubSeq(body, 1, dot - 1)
             frac   == SubSeq(body, dot + 1, Len(body))
             scaled == ParseDigits(whole, 0) * unit
                           + (ParseDigits(frac, 0) * unit) \div Pow10(Len(frac))
         IN  IF neg THEN - scaled ELSE scaled

\* the attributes of the number inputs, in the model's units
InputAttrs ==
    [ irradiance    |-> [unit |-> 1, min |-> 0, hasMax |-> FALSE, max |-> 0,
                         step |-> 10],
      efficiency    |-> [unit |-> 100, min |-> 0, hasMax |-> TRUE, max |-> 100,
                         step |-> 1],
      ambientTemp   |-> [unit |-> 10000, min |-> -400000, hasMax |-> FALSE,
                         max |-> 0, step |-> 10000],
      flowRate      |-> [unit |-> 1000, min |-> 0, hasMax |-> FALSE, max |-> 0,
                         step |-> 100],
      tankVolume    |-> [unit |-> 1, min |-> 1, hasMax |-> FALSE, max |-> 0,
                         step |-> 1],
      initialTemp   |-> [unit |-> 10000, min |-> -400000, hasMax |-> FALSE,
                         max |-> 0, step |-> 10000],
      panelArea     |-> [unit |-> 10, min |-> 1, hasMax |-> FALSE, max |-> 0,
                         step |-> 1],
      elevationDiff |-> [unit |-> 1, min |-> 1, hasMax |-> FALSE, max |-> 0,
                         step |-> 1] ]

\* the browser submits a form only when every number input that is not
\* empty is within min and max and on a step counted from min
FieldValid(attrs, v) ==
    \/ v.kind = "string" /\ v.text = << >>
    \/ LET n == Number(v, attrs.unit)
       IN  /\ n >= attrs.min
           /\ attrs.hasMax => n <= attrs.max
           /\ (n - attrs.min) % attrs.step = 0

FormValid(values) ==
    \A f \in DOMAIN InputAttrs : FieldValid(InputAttrs[f], values[f])

\* mutant: the two temperatures are taken from each other's field
numericDataSwapsTemps(values) ==
    [ fluid |-> values.fluid,
      irradiance |-> Number(values.irradiance, InputAttrs.irradiance.unit),
      efficiency |-> Number(values.efficiency, InputAttrs.efficiency.unit),
      ambientTemp |-> Number(values.initialTemp, InputAttrs.initialTemp.unit),
      flowRate |-> Number(values.flowRate, InputAttrs.flowRate.unit),
      tankVolume |-> Number(values.tankVolume, InputAttrs.tankVolume.unit),
      initialTemp |-> Number(values.ambientTemp, InputAttrs.ambientTemp.unit),
      panelArea |-> Number(values.panelArea, InputAttrs.panelArea.unit),
      elevationDiff |-> Number(values.elevationDiff,
                               InputAttrs.elevationDiff.unit) ]

\* numericData of onSubmit
numericData(values) ==
    [ fluid |-> values.fluid,
      irradiance |-> Number(values.irradiance, InputAttrs.irradiance.unit),
      efficiency |-> Number(values.efficiency, InputAttrs.efficiency.unit),
      ambientTemp |-> Number(values.ambientTemp, InputAttrs.ambientTemp.unit),
      flowRate |-> Number(values.flowRate, InputAttrs.flowRate.unit),
      tankVolume |-> Number(values.tankVolume, InputAttrs.tankVolume.unit),
      initialTemp |-> Number(values.initialTemp, InputAttrs.initialTemp.unit),
      panelArea |-> Number(values.panelArea, InputAttrs.panelArea.unit),
      elevationDiff |-> Number(values.elevationDiff,
                               InputAttrs.elevationDiff.unit) ]

\* the form values useForm and reset(defaultValues) set from a record
FormOf(p) ==
    [ fluid |-> p.fluid, irradiance |-> Num(p.irradiance),
      efficiency |-> Num(p.efficiency), ambientTemp |-> Num(p.ambientTemp),
      flowRate |-> Num(p.flowRate), tankVolume |-> Num(p.tankVolume),
      initialTemp |-> Num(p.initialTemp), panelArea |-> Num(p.panelArea),
      elevationDiff |-> Num(p.elevationDiff) ]

\* the defaultValues prop: { ...DEFAULT_PARAMS, ...(params || {}) }
defaultValues ==
    IF paramsRef = Null THEN DEFAULT_PARAMS ELSE paramsRef @@ DEFAULT_PARAMS

\* the variables of the hook
hookVarsOnly == <<state, stateRef, paramsRef, intervalRef, activeTimers, data,
                  tickLog, last, lag>>

\* no button has been clicked
NoClick == [n |-> 0, button |-> "none", calls |-> 0, edited |-> FALSE]

\* no formula has been called on its own
NoCall == [fn |-> "none", args |-> << >>, out |-> << >>]

Init ==
    /\ state = getInitialState(DEFAULT_PARAMS)
    /\ stateRef = state
    /\ paramsRef = Null
    /\ intervalRef = 0
    /\ activeTimers = {}
    /\ data = << >>
    /\ tickLog = << >>
    /\ last = [op |-> "none", arg |-> Null, prev |-> state, read |-> state,
               flow |-> 0, timers |-> {}]
    /\ lag = 0
    /\ call = NoCall
    /\ form = FormOf(DEFAULT_PARAMS)
    /\ click = NoClick

\* mutant: start installs its interval without clearing the previous one
StartNoClear(params) ==
    /\ Synced \/ LagAllowed
    /\ Cardinality(activeTimers) < MaxTimers
    /\ paramsRef' = params
    /\ state' = simulationReducer(state, [type |-> "START", payload |-> params])
    /\ data' = << >>
    /\ tickLog' = << >>
    /\ LET id == FreshTimer(activeTimers)
       IN  /\ activeTimers' = activeTimers \cup {id}
           /\ intervalRef' = id
    /\ last' = Note("start", params, stateRef, 0)
    /\ CountLag
    /\ UNCHANGED <<call, form, click>>
    /\ UNCHANGED stateRef

\* the handler start(params) of the hook
start(params) ==
    /\ Synced \/ LagAllowed
    /\ Cardinality(ClearInterval(activeTimers)) < MaxTimers
    /\ paramsRef' = params
    /\ state' = simulationReducer(state, [type |-> "START", payload |-> params])
    /\ data' = << >>
    /\ tickLog' = << >>
    /\ LET cleared == ClearInterval(activeTimers)
           id      == FreshTimer(cleared)
       IN  /\ activeTimers' = cleared \cup {id}
           /\ intervalRef' = id
    /\ last' = Note("start", params, stateRef, 0)
    /\ CountLag
    /\ UNCHANGED stateRef

\* a call of start(params) from outside the form
Start(params) ==
    /\ start(params)
    /\ UNCHANGED <<call, form, click>>

\* mutant: pause dispatches PAUSE and leaves the interval running
PauseKeepsTimer ==
    /\ Synced \/ LagAllowed
    /\ state' = simulationReducer(state, [type |-> "PAUSE"])
    /\ last' = Note("pause", Null, stateRef, 0)
    /\ CountLag
    /\ UNCHANGED <<call, form, click>>
    /\ UNCHANGED <<stateRef, paramsRef, intervalRef, activeTimers, data,
                   tickLog>>

\* mutant: pause also clears the history, as reset does
PauseClearsData ==
    /\ Synced \/ LagAllowed
    /\ state' = simulationReducer(state, [type |-> "PAUSE"])
    /\ activeTimers' = ClearInterval(activeTimers)
    /\ data' = << >>
    /\ tickLog' = << >>
    /\ last' = Note("pause", Null, stateRef, 0)
    /\ CountLag
    /\ UNCHANGED <<call, form, click>>
    /\ UNCHANGED <<stateRef, paramsRef, intervalRef>>

\* the handler pause of the hook
pause ==
    /\ Synced \/ LagAllowed
    /\ state' = simulationReducer(state, [type |-> "PAUSE"])
    /\ activeTimers' = ClearInterval(activeTimers)
    /\ last' = Note("pause", Null, stateRef, 0)
    /\ CountLag
    /\ UNCHANGED <<stateRef, paramsRef, intervalRef, data, tickLog>>

\* a call of pause from outside the form
Pause ==
    /\ pause
    /\ UNCHANGED <<call, form, click>>

\* mutant: reset also forgets the bound parameters
ResetForgetsParams ==
    /\ Synced \/ LagAllowed
    /\ state' = IF paramsRef # Null
                THEN simulationReducer(state, [type |-> "RESET",
                                               payload |-> paramsRef])
                ELSE state
    /\ activeTimers' = ClearInterval(activeTimers)
    /\ data' = << >>
    /\ tickLog' = << >>
    /\ paramsRef' = Null
    /\ last' = Note("reset", Null, stateRef, 0)
    /\ CountLag
    /\ UNCHANGED <<call, form, click>>
    /\ UNCHANGED <<stateRef, intervalRef>>

\* mutant: reset dispatches RESET and leaves the interval running
ResetKeepsTimer ==
    /\ Synced \/ LagAllowed
    /\ state' = IF paramsRef # Null
                THEN simulationReducer(state, [type |-> "RESET",
                                               payload |-> paramsRef])
                ELSE state
    /\ data' = << >>
    /\ tickLog' = << >>
    /\ last' = Note("reset", Null, stateRef, 0)
    /\ CountLag
    /\ UNCHANGED <<call, form, click>>
    /\ UNCHANGED <<stateRef, paramsRef, intervalRef, activeTimers>>

\* mutant: a reset with nothing bound binds the defaults and resets to them
ResetBindsDefaults ==
    /\ Synced \/ LagAllowed
    /\ paramsRef' = IF paramsRef # Null THEN paramsRef ELSE DEFAULT_PARAMS
    /\ state' = simulationReducer(state, [type |-> "RESET",
                                          payload |-> paramsRef'])
    /\ activeTimers' = ClearInterval(activeTimers)
    /\ data' = << >>
    /\ tickLog' = << >>
    /\ last' = Note("reset", Null, stateRef, 0)
    /\ CountLag
    /\ UNCHANGED <<call, form, click>>
    /\ UNCHANGED <<stateRef, intervalRef>>

\* the handler reset of the hook
reset ==
    /\ Synced \/ LagAllowed
    /\ state' = IF paramsRef # Null
                THEN simulationReducer(state, [type |-> "RESET",
                                               payload |-> paramsRef])
                ELSE state
    /\ activeTimers' = ClearInterval(activeTimers)
    /\ data' = << >>
    /\ tickLog' = << >>
    /\ last' = Note("reset", Null, stateRef, 0)
    /\ CountLag
    /\ UNCHANGED <<stateRef, paramsRef, intervalRef>>

\* a call of reset from outside the form
Reset ==
    /\ reset
    /\ UNCHANGED <<call, form, click>>

\* a live interval can fire its callback
TickEnabled ==
    /\ activeTimers # {}
    /\ Synced \/ LagAllowed
    /\ state.time < TickBound

\* one firing of a live interval: tick()
Tick ==
    /\ TickEnabled
    /\ IF paramsRef = Null
       THEN UNCHANGED <<state, data, tickLog, last>>
       ELSE IF fluidPropsOf(paramsRef.fluid) = Undefined
       \* fluidProps.density throws a TypeError: the callback ends there
       THEN /\ UNCHANGED <<state, data, tickLog>>
            /\ last' = Note("tick_error", Null, stateRef, 0)
       ELSE LET prevState == stateRef
                loc       == TickLocals(paramsRef, prevState)
            IN  /\ data' = AppendCapped(data, loc.tickData)
                /\ tickLog' = Append(tickLog, loc.tickData)
                /\ state' = simulationReducer(state,
                                [type |-> "TICK", payload |-> loc.tickData])
                /\ last' = Note("tick", Null, prevState, loc.effectiveFlowRate)
    /\ CountLag
    /\ UNCHANGED <<call, form, click>>
    /\ UNCHANGED <<stateRef, paramsRef, intervalRef, activeTimers>>

\* React commits the render and runs the effect: stateRef.current = state
SyncStateRef ==
    /\ stateRef # state
    /\ stateRef' = state
    /\ UNCHANGED <<state, paramsRef, intervalRef, activeTimers, data, tickLog,
                   last, lag, call, form, click>>

Next ==
    \/ \E params \in StartArgs : Start(params)
    \/ Pause
    \/ Reset
    \/ Tick
    \/ SyncStateRef

Spec == Init /\ [][Next]_vars

\* a run that is started once and then left alone: no pause(), no reset(),
\* no second start()
RunNext ==
    \/ \E params \in ParamSet : ~ state.running /\ Start(params)
    \/ Tick
    \/ SyncStateRef

\* setInterval keeps firing its callback and React keeps committing the
\* renders that dispatch schedules, so neither step is postponed for ever
\* (RunSpec below)
\* weak fairness of Tick, with its enabling condition written out: a
\* callback that can fire from some point on does fire
TimerFair == []<>(~ TickEnabled) \/ []<><<Tick>>_vars

RunSpec == Init /\ [][RunNext]_vars /\ WF_vars(SyncStateRef) /\ TimerFair

\* ------------------------------------------------- the form drives the hook
\* the texts typed into the number inputs
TypedSet ==
    [ irradiance    |-> {<<"9", "0", "0">>, << >>},
      efficiency    |-> {<<"0", ".", "6", "5">>, <<"1", ".", "5">>},
      elevationDiff |-> {<<"0">>} ]

\* the options picked in the fluid select
SelectSet == {"water", "mineral_oil"}

\* typing into a registered number input
EditField ==
    /\ \E f \in DOMAIN TypedSet : \E chars \in TypedSet[f] :
           /\ form[f] # Typed(chars)
           /\ form' = [form EXCEPT ![f] = Typed(chars)]
    /\ click' = [click EXCEPT !.edited = TRUE]
    /\ UNCHANGED <<hookVarsOnly, call>>

\* picking an option of the fluid select
SelectFluid ==
    /\ \E id \in SelectSet :
           /\ form.fluid # id
           /\ form' = [form EXCEPT !.fluid = id]
    /\ click' = [click EXCEPT !.edited = TRUE]
    /\ UNCHANGED <<hookVarsOnly, call>>

\* a click on Start (type="submit"): the browser checks the inputs, then
\* handleSubmit(onSubmit) runs onSubmit with the form values
ClickStart ==
    /\ Synced
    /\ click.n < MaxClicks
    /\ IF FormValid(form)
       THEN /\ start(numericData(form))
            /\ click' = [click EXCEPT !.n = @ + 1, !.button = "start",
                                      !.calls = 1]
       ELSE /\ UNCHANGED hookVarsOnly
            /\ click' = [click EXCEPT !.n = @ + 1, !.button = "start",
                                      !.calls = 0]
    /\ UNCHANGED <<call, form>>

\* a click on Pause (disabled unless isRunning)
ClickPause ==
    /\ Synced
    /\ click.n < MaxClicks
    /\ state.running
    /\ pause
    /\ click' = [click EXCEPT !.n = @ + 1, !.button = "pause", !.calls = 0]
    /\ UNCHANGED <<call, form>>

\* a click on Reset: reset(defaultValues); onReset()
ClickReset ==
    /\ Synced
    /\ click.n < MaxClicks
    /\ form' = FormOf(defaultValues)
    /\ reset
    /\ click' = [n |-> click.n + 1, button |-> "reset", calls |-> 0,
                 edited |-> FALSE]
    /\ UNCHANGED call

\* a timer firing within the explored length of a session with the form,
\* on a committed render
UiTick ==
    /\ Synced
    /\ state.time < MaxUiTicks
    /\ Tick

UiNext ==
    \/ EditField
    \/ SelectFluid
    \/ ClickStart
    \/ ClickPause
    \/ ClickReset
    \/ UiTick
    \/ SyncStateRef

UiSpec == Init /\ [][UiNext]_vars

\* ------------------------------------------- the formulas called on their own
hookVars == <<state, stateRef, paramsRef, intervalRef, activeTimers, data,
              tickLog, last, lag, form, click>>

\* ambient temperatures from -40 degF in steps of 45 degF
AmbientSet == {-400000 + 450000 * k : k \in 0..MaxTempSteps}
\* panel-minus-ambient differences on both sides of 0.1 degF, up to 15 degF
DeltaSet == {0, 500, 999, 1000, 1001, 5000, 50000, 150000}
SignedDeltaSet == DeltaSet \cup {-d : d \in DeltaSet}
\* panel heights from 0.6 m in steps of 0.3 m
HeightSet == {6 + 3 * k : k \in 0..MaxHeightSteps}
IrradianceSet == {250 * k : k \in 0..MaxIrradianceSteps}
EfficiencySet == {0, 50, 80, 100}
AreaSet == {1, 20, 55}
\* panel temperatures below, at and above the 77 degF reference
PanelTempSet == {-400000, 320000, 700000, 770000, 1200000}
\* panel and tank temperatures from 60 degF in steps of 15 degF
LoopTempSet == {600000 + 150000 * k : k \in 0..MaxTempSteps}
ElevationSet == (-MaxElevation)..MaxElevation

\* computeHeatTransferCoeff(panelTempF, ambientTempF, panelHeight)
HeatTransferCalls ==
    { [fn |-> "computeHeatTransferCoeff", args |-> <<a + d, a, h>>,
       out |-> << >>] :
          a \in AmbientSet, d \in SignedDeltaSet, h \in HeightSet }

\* computeHeatInput at two irradiances, the other arguments fixed
HeatInputCalls ==
    { [fn |-> "computeHeatInput", args |-> <<i1, i2, e, ar, t>>,
       out |-> << >>] :
          i1 \in IrradianceSet, i2 \in IrradianceSet, e \in EfficiencySet,
          ar \in AreaSet, t \in PanelTempSet }

\* the passive branch for a panel temperature, a tank temperature and an
\* elevation difference
PassiveFlowCalls ==
    { [fn |-> "passiveFlow", args |-> <<p, t, e>>, out |-> << >>] :
          p \in LoopTempSet, t \in LoopTempSet, e \in ElevationSet }

\* elevation differences in m, up to and beyond the 10 km at which the
\* elevation factor of computeHeatLoss reaches 0
LossElevationSet == {-2, 0, 10, 3000, 10000, 12000}

\* panel temperature minus ambient temperature
LossDeltaSet == {-150000, -1000, 0, 1000, 150000}

HeatLossCalls ==
    { [fn |-> "computeHeatLoss", args |-> <<a, t + dt, t, e>>, out |-> << >>] :
          a \in AreaSet, t \in AmbientSet, dt \in LossDeltaSet,
          e \in LossElevationSet }

FnInit ==
    /\ state = getInitialState(DEFAULT_PARAMS)
    /\ stateRef = state
    /\ paramsRef = Null
    /\ intervalRef = 0
    /\ activeTimers = {}
    /\ data = << >>
    /\ tickLog = << >>
    /\ last = [op |-> "none", arg |-> Null, prev |-> state, read |-> state,
               flow |-> 0, timers |-> {}]
    /\ lag = 0
    /\ call \in HeatTransferCalls \cup HeatInputCalls \cup PassiveFlowCalls
                 \cup HeatLossCalls
    /\ form = FormOf(DEFAULT_PARAMS)
    /\ click = NoClick

\* the hook's call: the other arguments take their defaults
CallComputeHeatTransferCoeff ==
    /\ call.fn = "computeHeatTransferCoeff"
    /\ call.out = << >>
    /\ call' = [call EXCEPT !.out =
                   << computeHeatTransferCoeff(call.args[1], call.args[2],
                                               call.args[3], 0, 0, 0) >>]
    /\ UNCHANGED hookVars

CallComputeHeatInput ==
    /\ call.fn = "computeHeatInput"
    /\ call.out = << >>
    /\ call' = [call EXCEPT !.out =
                   << computeHeatInput(call.args[1], call.args[3],
                                       call.args[4], call.args[5]),
                      computeHeatInput(call.args[2], call.args[3],
                                       call.args[4], call.args[5]) >>]
    /\ UNCHANGED hookVars

\* the passive flow, then the flow with the elevation taken away, with the
\* temperature excess taken away, with the elevation doubled and with the
\* temperature excess doubled
CallPassiveFlow ==
    /\ call.fn = "passiveFlow"
    /\ call.out = << >>
    /\ LET p == call.args[1]
           t == call.args[2]
           e == call.args[3]
       IN  call' = [call EXCEPT !.out =
                       << passiveFlow(p, t, e),
                          passiveFlow(p, t, 0),
                          passiveFlow(t, t, e),
                          passiveFlow(t, t, 2 * e),
                          passiveFlow(2 * p - t, t, 0) >>]
    /\ UNCHANGED hookVars

\* qLoss as tick computes it: the coefficient from the two temperatures
\* with the other arguments at their defaults, then the loss
CallComputeHeatLoss ==
    /\ call.fn = "computeHeatLoss"
    /\ call.out = << >>
    /\ LET heatTransferCoeff ==
               computeHeatTransferCoeff(call.args[2], call.args[3],
                                        DEFAULT_PANEL_HEIGHT, 0, 0, 0)
       IN  call' = [call EXCEPT !.out =
                       << computeHeatLoss(call.args[1], call.args[2],
                                          call.args[3], heatTransferCoeff,
                                          call.args[4]) >>]
    /\ UNCHANGED hookVars

FnNext ==
    \/ CallComputeHeatTransferCoeff
    \/ CallComputeHeatInput
    \/ CallPassiveFlow
    \/ CallComputeHeatLoss

FnSpec == FnInit /\ [][FnNext]_vars

\* ------------------------------------------------------------------ claims
StateFields == {"time", "tankTemp", "panelTemp", "Q", "qLoss"}

\* C1: reset() after start(p) and any number of ticks leaves tankTemp =
\* p.initialTemp, panelTemp = p.ambientTemp, time = 0, Q = 0, qLoss = 0,
\* running = false and an empty history, p being the last-bound parameters.
C1_ResetRestores ==
    (last.op = "reset" /\ paramsRef # Null) =>
        /\ state.tankTemp = paramsRef.initialTemp
        /\ state.panelTemp = paramsRef.ambientTemp
        /\ state.time = 0
        /\ state.Q = 0
        /\ state.qLoss = 0
        /\ state.running = FALSE
        /\ data = << >>

\* a reset of a running engine, three or more ticks into a run whose
\* parameters are not the defaults
C1_Witness ==
    /\ last.op = "reset"
    /\ paramsRef = ZeroFlowParams
    /\ last.prev.running
    /\ last.prev.time >= 3
    /\ last.prev.panelTemp # paramsRef.ambientTemp

\* C2: start(p), from any engine state, binds p, sets tankTemp =
\* p.initialTemp, panelTemp = p.ambientTemp, Q = 0, qLoss = 0, time = 0,
\* running = true, empties the history and installs the tick timer.
C2_StartReinitializes ==
    last.op = "start" =>
        /\ paramsRef = last.arg
        /\ state.tankTemp = last.arg.initialTemp
        /\ state.panelTemp = last.arg.ambientTemp
        /\ state.Q = 0
        /\ state.qLoss = 0
        /\ state.time = 0
        /\ state.running = TRUE
        /\ data = << >>
        /\ intervalRef # 0
        /\ intervalRef \in activeTimers

\* a start of a paused engine whose earlier run had ticked
C2_Witness ==
    /\ last.op = "start"
    /\ ~ last.prev.running
    /\ last.prev.time >= 2
    /\ last.timers = {}

\* C3: the history never holds more than 50 records, and after start and
\* exactly 60 ticks it holds the records of ticks 11 to 60 in tick order.
C3_HistoryBounded ==
    /\ Len(data) <= 50
    /\ state.time = 60 =>
           /\ Len(tickLog) = 60
           /\ data = SubSeq(tickLog, 11, 60)

\* sixty ticks into a run: fifty records, of ticks 11 to 60
C3_Witness ==
    /\ state.time = 60
    /\ last.op = "tick"
    /\ Len(data) = 50
    /\ data[1].time = 11
    /\ data[50].time = 60

\* C4: while the engine is paused or idle no tick fires: until the next
\* start() or reset() no step changes time, tankTemp, panelTemp, Q, qLoss
\* or the history.
C4_NoTickUnlessRunning ==
    [][ (~ state.running /\ last'.op \notin {"start", "reset"}) =>
            /\ \A f \in StateFields : state'[f] = state[f]
            /\ data' = data ]_vars

\* a paused engine, two or more ticks into its run
C4_Witness ==
    /\ last.op = "pause"
    /\ last.prev.running
    /\ ~ state.running
    /\ state.time >= 2
    /\ Len(data) >= 2

\* C5: pause() sets running = false and cancels the timer, and leaves time,
\* tankTemp, panelTemp, Q, qLoss, the history and the bound parameters as
\* they were.
C5_PauseFrame ==
    [][ last'.op = "pause" =>
            /\ state'.running = FALSE
            /\ \A f \in DOMAIN state \ {"running"} : state'[f] = state[f]
            /\ DOMAIN state' = DOMAIN state
            /\ data' = data
            /\ paramsRef' = paramsRef
            /\ intervalRef' \notin activeTimers' ]_vars

\* a pause of a running engine with history
C5_Witness ==
    /\ last.op = "pause"
    /\ last.prev.running
    /\ last.timers # {}
    /\ last.prev.time >= 3
    /\ Len(data) >= 3

\* C6: pause() is idempotent: a pause of an engine that is already paused
\* or idle, in particular a second pause in a row, changes neither the
\* state nor the history nor the timer nor the bound parameters.
C6_PauseIdempotent ==
    [][ (last'.op = "pause" /\ (last.op = "pause" \/ ~ state.running)) =>
            /\ state' = state
            /\ data' = data
            /\ activeTimers' = activeTimers
            /\ intervalRef' = intervalRef
            /\ paramsRef' = paramsRef ]_vars

\* a pause that found the engine already paused, with ticks behind it
C6_Witness ==
    /\ last.op = "pause"
    /\ ~ last.prev.running
    /\ last.prev.time >= 1
    /\ last.timers = {}
    /\ paramsRef # Null

\* C7: at most one periodic tick timer is active at any time.
C7_OneTimer == Cardinality(activeTimers) <= 1

\* a start called while the timer of the running engine was live
C7_Witness ==
    /\ last.op = "start"
    /\ last.timers # {}
    /\ last.prev.running
    /\ Cardinality(activeTimers) = 1

\* C8: ticks are serialized: the snapshot a tick reads is the state produced
\* by the immediately preceding tick or by start, that is, the state as it
\* was when the timer fired.
C8_TicksSerialized ==
    last.op = "tick" => last.read = last.prev

\* C9: start(p) rejects a p that violates a parameter invariant (panelArea
\* > 0, tankVolume > 0, efficiency in [0, 1], flowRate >= 0): an engine that
\* was not running stays not running and no timer is installed.
C9_StartRejectsInvalid ==
    (/\ last.op = "start"
     /\ ~ ValidParams(last.arg)
     /\ ~ last.prev.running) =>
        /\ state.running = FALSE
        /\ activeTimers = {}

\* C10: with pump flow rate 0 and the tank above the panel, the effective
\* flow rate resolved in every tick is greater than 0.
C10_GravityFlow ==
    (/\ last.op = "tick"
     /\ paramsRef # Null
     /\ paramsRef.flowRate = 0
     /\ paramsRef.elevationDiff > 0) => last.flow > 0

\* C11: with pump flow rate 0, elevation difference <= 0 and the panel no
\* hotter than the tank, the effective flow rate of the tick is exactly 0.
C11_NoPassivePath ==
    (/\ last.op = "tick"
     /\ paramsRef.flowRate = 0
     /\ paramsRef.elevationDiff <= 0
     /\ last.read.panelTemp <= last.read.tankTemp) => last.flow = 0

\* the third or a later tick of a run with the pump off, the tank below the
\* panel and hotter than it
C11_Witness ==
    /\ last.op = "tick"
    /\ paramsRef = NoReturnPathParams
    /\ state.time >= 3
    /\ last.read.panelTemp < last.read.tankTemp
    /\ last.flow = 0

\* C12: with the pump setting exactly 0 every tick leaves the tank
\* temperature unchanged: tankTemp equals initialTemp for the whole run.
C12_ZeroFlowTankUnchanged ==
    (/\ last.op = "tick"
     /\ paramsRef.flowRate = 0) => state.tankTemp = paramsRef.initialTemp

\* C13: with the pump setting above 0.01 the effective flow rate of every
\* tick equals the pump setting, whatever the elevation and temperatures.
C13_ForcedMode ==
    (/\ last.op = "tick"
     /\ paramsRef.flowRate > PUMP_THRESHOLD) =>
        last.flow = paramsRef.flowRate

\* a tick in forced mode whose passive candidate differs from the setting
C13_Witness ==
    /\ last.op = "tick"
    /\ paramsRef.flowRate > PUMP_THRESHOLD
    /\ state.time >= 2
    /\ passiveFlow(last.read.panelTemp, last.read.tankTemp,
                   paramsRef.elevationDiff) \notin {0, paramsRef.flowRate}
    /\ last.flow = paramsRef.flowRate

\* C15: in the passive branch (0 < pump setting <= 0.01) the effective flow
\* rate of the tick never exceeds the pump setting.
C15_PassiveClamped ==
    (/\ last.op = "tick"
     /\ paramsRef.flowRate > 0
     /\ paramsRef.flowRate <= PUMP_THRESHOLD) =>
        last.flow <= paramsRef.flowRate

\* a passive tick whose candidate exceeds the pump setting and is cut to it
C15_Witness ==
    /\ last.op = "tick"
    /\ paramsRef = TrickleParams
    /\ passiveFlow(last.read.panelTemp, last.read.tankTemp,
                   paramsRef.elevationDiff) > paramsRef.flowRate
    /\ last.flow = paramsRef.flowRate

C19_TickRecord ==
    last.op = "tick" =>
        /\ state.time = last.prev.time + 1
        /\ state.time = Len(tickLog)
        /\ data # << >>
        /\ \A f \in StateFields : data[Len(data)][f] = state[f]

\* C20: the bound parameter record changes only in start(params), which
\* binds its argument; tick, pause and reset leave it unchanged, and the
\* record a tick appends is computed with the bound record.
C20_ParamsBoundAtStart ==
    [][ /\ paramsRef' # paramsRef =>
               /\ last'.op = "start"
               /\ last' # last
               /\ paramsRef' = last'.arg
        /\ Len(tickLog') = Len(tickLog) + 1 =>
               /\ paramsRef # Null
               /\ paramsRef' = paramsRef
               /\ tickLog'[Len(tickLog')] =
                      TickLocals(paramsRef, last'.read).tickData ]_vars

\* a reset, three or more ticks into a run, that kept the bound record
C20_Witness ==
    /\ last.op = "reset"
    /\ last.prev.time >= 3
    /\ paramsRef = TrickleParams
    /\ state.tankTemp = TrickleParams.initialTemp

C16_FloorOnlyBelowTenth ==
    (call.fn = "computeHeatTransferCoeff" /\ call.out # << >>) =>
        IF Abs(call.args[1] - call.args[2]) < 1000
        THEN call.out[1] = 5000
        ELSE call.out[1] > 5000

\* a call at a difference of exactly 0.1 degF, just outside the floor
C16_Witness ==
    /\ call.fn = "computeHeatTransferCoeff"
    /\ call.out # << >>
    /\ Abs(call.args[1] - call.args[2]) = 1000
    /\ call.args[3] # DEFAULT_PANEL_HEIGHT
    /\ call.out[1] > 5000

\* C17: for a fixed efficiency, panel area and panel temperature at or
\* below the 77 degF reference, irradiance1 <= irradiance2 implies
\* computeHeatInput at irradiance1 <= computeHeatInput at irradiance2.
C17_HeatInputMonotone ==
    (/\ call.fn = "computeHeatInput"
     /\ call.out # << >>
     /\ call.args[5] <= refTempF
     /\ call.args[1] <= call.args[2]) => call.out[1] <= call.out[2]

\* a call at two different irradiances with a heat input that grew
C17_Witness ==
    /\ call.fn = "computeHeatInput"
    /\ call.out # << >>
    /\ call.args[5] < refTempF
    /\ call.args[1] < call.args[2]
    /\ call.args[1] > 0
    /\ call.out[1] < call.out[2]


\* C21: a run started with valid parameters and never paused or reset keeps
\* going: running does not turn false by itself, and for every n up to the
\* explored run length the state reaches time >= n.
C21_RunsIndefinitely ==
    /\ [][state.running => state'.running]_vars
    /\ \A n \in 0..MaxShortTicks :
           (state.running /\ ValidParams(paramsRef)) ~> (state.time >= n)

C21_Witness ==
    /\ state.running
    /\ ValidParams(paramsRef)
    /\ last.op = "tick"
    /\ state.time = MaxShortTicks
    /\ activeTimers # {}


C23_AnomaliesBenign ==
    /\ [](Synced => /\ ENABLED Pause
                    /\ ENABLED Reset
                    /\ \A p \in StartArgs : ENABLED Start(p))
    /\ [][(\/ last'.op = "pause" /\ ~ state.running
           \/ last'.op = "reset" /\ paramsRef = Null)
          => /\ state' = state
             /\ data' = data
             /\ paramsRef' = paramsRef
             /\ activeTimers' = activeTimers]_vars

\* a reset called before the first start
C23_Witness ==
    /\ last.op = "reset"
    /\ paramsRef = Null
    /\ state = getInitialState(DEFAULT_PARAMS)
    /\ data = << >>
    /\ activeTimers = {}


\* the record the form's current values stand for, field by field
FormAsNumbers ==
    [fluid |-> form.fluid]
        @@ [f \in DOMAIN InputAttrs |-> Number(form[f], InputAttrs[f].unit)]

\* the step is a click on the Start button
StartClicked == click'.n # click.n /\ click'.button = "start"

\* C24 as stated: every click on Start calls start exactly once, with the
\* record of the form's current values converted to numbers, which for a
\* form not edited since it was mounted or reset is the bound record (the
\* defaults when none is bound).
C24_EveryClickStarts ==
    [][StartClicked =>
          /\ click'.calls = 1
          /\ last'.op = "start"
          /\ last'.arg = FormAsNumbers
          /\ paramsRef' = FormAsNumbers
          /\ ~ click.edited => last'.arg = defaultValues]_vars

\* C24: a click on Start with every number input empty or within its min,
\* max and step calls start exactly once, with the record of the form's
\* current values converted to numbers, which for a form not edited since
\* it was mounted or reset is the bound record (the defaults when none is
\* bound); a click with an input outside them calls nothing and changes
\* nothing.
C24_ValidClickStarts ==
    [][StartClicked =>
          IF FormValid(form)
          THEN /\ click'.calls = 1
               /\ last'.op = "start"
               /\ last'.arg = FormAsNumbers
               /\ paramsRef' = FormAsNumbers
               /\ state'.running
               /\ ~ click.edited => last'.arg = defaultValues
          ELSE /\ click'.calls = 0
               /\ UNCHANGED <<state, paramsRef, data, activeTimers, last>>]_vars

\* a click on Start with 0.65 typed into the efficiency input and the
\* irradiance input emptied
C24_Witness ==
    /\ click.button = "start"
    /\ click.calls = 1
    /\ last.op = "start"
    /\ form.efficiency = Typed(<<"0", ".", "6", "5">>)
    /\ form.irradiance = Typed(<< >>)
    /\ paramsRef = last.arg
    /\ paramsRef.efficiency = 65
    /\ paramsRef.irradiance = 0
    /\ paramsRef.elevationDiff = DEFAULT_PARAMS.elevationDiff


\* C25: in every tick the heat credited to the panel from the tank is
\* massFlow * specificHeat * (T_tank - T_panel) when the mass flow is
\* positive and the tank is strictly hotter than the panel, and 0 otherwise;
\* it is never negative, and it is what the panel's new temperature and the
\* recorded Q and Q_loss differ by.
C25_TransferFormula ==
    last.op = "tick" =>
        LET prev == last.read
            loc  == TickLocals(paramsRef, prev)
            c    == FLUIDS[paramsRef.fluid].specificHeat
            dT   == prev.tankTemp - prev.panelTemp
            \* the product taken in another order, in 1e-2 W
            product == MulDiv(MulDiv(loc.massFlowRate, dT, 1000), c, 100000)
            transfer == loc.qNet - (state.Q - state.qLoss)
        IN  /\ transfer >= 0
            /\ IF loc.massFlowRate > 0 /\ dT > 0
               THEN Abs(transfer - product) <= 2 + dT \div 100000
               ELSE transfer = 0
            /\ state.panelTemp = prev.panelTemp
                   + computeTemperatureChange(state.Q - state.qLoss + transfer,
                                              0, 0, TRUE, paramsRef.panelArea)

\* a tick of a pumped loop whose tank is hotter than its panel
C25_Witness ==
    /\ last.op = "tick"
    /\ last.read = last.prev
    /\ paramsRef = HotTankParams
    /\ last.read.tankTemp > last.read.panelTemp
    /\ TickLocals(paramsRef, last.read).massFlowRate > 0
    /\ TickLocals(paramsRef, last.read).QTankToPanel > 100


\* C26: in every reachable state the history holds min(state.time, 50)
\* records: a tick adds one to both, start and reset empty both.
C26_HistoryLength == Len(data) = Min2(state.time, MAX_DATA_POINTS)

\* a full history, ten ticks after it filled up
C26_Witness ==
    /\ last.op = "tick"
    /\ state.time = MAX_DATA_POINTS + 10
    /\ Len(data) = MAX_DATA_POINTS

\* C27: in every reachable state running is true exactly when an interval
\* is live.
C27_RunningIffTimer == state.running <=> activeTimers # {}

\* a running engine after a tick, its interval live
C27_Witness ==
    /\ last.op = "tick"
    /\ state.running
    /\ state.time > 1
    /\ activeTimers = {intervalRef}


\* C28: in every reachable state the times of the history records are
\* consecutive increasing integers, and the first record appended since the
\* last start has time 1 and is the tick computation on the start state of
\* the bound parameters (tank at initialTemp, panel at ambientTemp).
C28_HistoryConsecutive ==
    /\ \A i \in 1..(Len(data) - 1) : data[i + 1].time = data[i].time + 1
    /\ (tickLog # << >> /\ last.op # "reset") =>
           /\ tickLog[1].time = 1
           /\ tickLog[1] =
                  TickLocals(paramsRef, getInitialState(paramsRef)).tickData


\* C29: in a tick with a positive mass flow and the tank hotter than the
\* panel, the heat taken from the tank (-qDelivered) equals the heat
\* QTankToPanel credited to the panel, within the rounding of the values.
C29_ExchangeConserved ==
    last.op = "tick" =>
        LET prev == last.read
            loc  == TickLocals(paramsRef, prev)
        IN  (loc.massFlowRate > 0 /\ prev.tankTemp > prev.panelTemp) =>
                Abs((- loc.qDelivered) - loc.QTankToPanel)
                    <= 2 + loc.QTankToPanel \div 100


\* C30: the heat loss of a tick has the sign of (T_panel - T_ambient) for
\* every elevation difference: it is >= 0 when the panel is at least as hot
\* as the ambient air and <= 0 when it is colder.
C30_LossSign ==
    (call.fn = "computeHeatLoss" /\ call.out # << >>) =>
        /\ call.args[2] >= call.args[3] => call.out[1] >= 0
        /\ call.args[2] < call.args[3] => call.out[1] <= 0

====
